---- MODULE Spec2Model ----
(***************************************************************************)
(* Liquidity detection, safety filtering, sniping and position management  *)
(* of the multi-chain trading bot: LiquidityDetector (Ethereum),           *)
(* MultiChainLiquidityDetector (Solana), the chain adapters they call and  *)
(* the SecurityModule's daily counters.                                    *)
(*                                                                         *)
(* Numbers.  A JavaScript number v is the integer v * 1000; the last       *)
(* decimal digit is kept free for the rounding error of a double, so that  *)
(* 110.00000000000001 (= 100 * (1 + 10/100) in IEEE arithmetic) is         *)
(* 110001 and differs from 110 (= 110000).  NaN is a number below all.    *)
(* Percentages are held in hundredths of a percent (10 % = 1000).          *)
(***************************************************************************)
EXTENDS Integers, Sequences, FiniteSets, TLC

\* ------------------------------------------------------------------ bounds
MaxEvents == 1      \* discovery events per behaviour
MaxPolls == 3       \* ticks of one position's monitoring loop
MaxListCalls == 1   \* addToBlacklist / addToWhitelist calls per behaviour

\* -------------------------------------------------------------- addresses
WETH_ADDRESS == "0xC02aaA"

\* token addresses as the factory emits them (checksummed, mixed case)
EthTokens == {"0xAbC", "0xDeF"}

\* mint addresses as monitorNewTokens builds them: So1 + base-36 digits
SolTokens == {"So1a", "So1b"}

\* what a caller may hand to addToBlacklist / addToWhitelist
ListInputs == {"0xABC", "So1a"}

\* String.prototype.toLowerCase on the strings of the model
toLowerCase(s) ==
  CASE s = "0xC02aaA" -> "0xc02aaa"
    [] s = "0xAbC" -> "0xabc"
    [] s = "0xABC" -> "0xabc"
    [] s = "0xDeF" -> "0xdef"
    [] s = "So1a" -> "so1a"
    [] s = "So1b" -> "so1b"
    [] OTHER -> s

\* the (token0, token1) arguments of PairCreated
Pairs ==
  { <<WETH_ADDRESS, "0xAbC">>, <<"0xDeF", WETH_ADDRESS>>,
    <<"0xAbC", "0xDeF">> }

\* ---------------------------------------------------------------- numbers
NaN == 0 - 1000000000

\* parseFloat on the strings the adapters return; undefined parses to NaN
parseFloat(s) ==
  CASE s = "undefined" -> NaN
    [] s = "0" -> 0
    [] s = "0.0" -> 0
    [] s = "49999.0" -> 49999 * 1000
    [] s = "50000.0" -> 50000 * 1000
    [] s = "100.0" -> 100 * 1000
    [] s = "105.0" -> 105 * 1000
    [] s = "111.0" -> 111 * 1000
    [] s = "1000.0" -> 1000 * 1000
    [] s = "0.005" -> 5
    [] s = "0.01" -> 10
    [] s = "0.02" -> 20
    [] s = "0.05" -> 50
    [] s = "0.1" -> 100
    [] s = "0.2" -> 200
    [] s = "0.5" -> 500
    [] s = "1" -> 1000
    [] s = "2" -> 2000
    [] s = "5" -> 5000
    [] s = "64000" -> 64000 * 1000
    [] s = "64320" -> 64320 * 1000
    [] s = "64321" -> 64321 * 1000
    [] s = "65000" -> 65000 * 1000
    [] OTHER -> NaN

\* a < b, a <= b, a >= b on numbers: every comparison with NaN is false
Lt(a, b) == a # NaN /\ b # NaN /\ a < b
Le(a, b) == a # NaN /\ b # NaN /\ a <= b
Ge(a, b) == a # NaN /\ b # NaN /\ a >= b
Gt(a, b) == a # NaN /\ b # NaN /\ a > b

\* ethers.utils.formatUnits(amount, 18): zero is "0.0", never "0"
formatUnits(amount) ==
  CASE amount = 0 -> "0.0"
    [] amount = 100 -> "100.0"
    [] amount = 105 -> "105.0"
    [] amount = 111 -> "111.0"

\* what getAmountsOut can quote for one token, in whole reference units
QuoteAmounts == {100, 105, 111}
EntryQuoteAmounts == {0, 100}

\* ---------------------------------------------------------- configuration
\* trading.ethereum.minLiquidityUSD
minLiquidityUSD == 50000 * 1000

\* pairData.liquidity.liquidityUSD as getPairLiquidity returns it: absent
\* (undefined) when the pair lookup failed or the pair does not exist
LiquidityValues == {"undefined", "49999.0", "50000.0"}

\* The values config.get can return for the keys the detectors read.
\*   ethTradingEnabled  exchanges.ethereum.tradingEnabled (default false)
\*   snipingEnabled     trading.solana.snipingEnabled      (default false)
\*   solTradingEnabled  trading.solana.tradingEnabled      (default false)
\*   takeProfit/stopLoss  trading.takeProfitPercentage / stopLossPercentage:
\*     10 and 5 when the keys are absent, 0.1 and 0.05 as the config ships
Percentages ==
  { [tp |-> 1000, sl |-> 500], [tp |-> 10, sl |-> 5], [tp |-> 0, sl |-> 0] }
Configs ==
  { [ethTradingEnabled |-> e, snipingEnabled |-> s, solTradingEnabled |-> t,
     takeProfitPercentage |-> p.tp, stopLossPercentage |-> p.sl] :
    e \in BOOLEAN, s \in BOOLEAN, t \in BOOLEAN, p \in Percentages }

VARIABLES
  config,            \* the configuration the process runs with
  initialized,       \* MultiChainLiquidityDetector.initialized
  adapters,          \* per chain: the adapter module's initialized field
  listening,         \* live subscriptions / pollers of each chain's detector
  monitors,          \* MultiChainLiquidityDetector.monitors: per chain none,
                     \* live (its handle is running) or stopped
  stopped,           \* stopAllMonitors has returned since the latest start
  wallet,            \* SolanaModule.wallet is set (the module never sets
                     \* it itself: a public field of the exported object)
  tokenBlacklist,    \* LiquidityDetector.tokenBlacklist
  tokenWhitelist,    \* LiquidityDetector.tokenWhitelist
  listCalls,         \* addTo... calls made so far
  events,            \* one record per discovery event and its pipeline
  activeStrategies,  \* MultiChainLiquidityDetector.activeStrategies
  now,               \* Date.now()
  dailyTransactions, \* SecurityModule.dailyTransactions: per chain the
                     \* total (as the number its string parses to), the
                     \* count and the length of the transactions list
                     \* (the list is only ever pushed to, never read)
  securityInitialized, \* SecurityModule.initialized
  validation,        \* the latest validateTransaction call and its result,
                     \* and per chain the sum approved since the last reset
  arbitrage          \* the latest Bitcoin tick or executeBitcoinArbitrage
                     \* call, its result and the orders it submitted

vars ==
  << config, initialized, adapters, listening, monitors, stopped, wallet,
     tokenBlacklist, tokenWhitelist, listCalls, events, activeStrategies,
     now, dailyTransactions, securityInitialized, validation, arbitrage >>

Chains == {"ethereum", "solana"}

\* the chains initialize sets a monitor up for
MonitoredChains == {"ethereum", "bitcoin", "solana"}

\* the record of a discovery event before its handler has done anything
NewEvent(chain, t0, t1) ==
  [ chain |-> chain, token0 |-> t0, token1 |-> t1,
    emission |-> 0,         \* position among the adapters' emissions
    liquidityUSD |-> "-",   \* pairData.liquidity.liquidityUSD
    asset |-> "-",          \* the address handed on by the handler
    pc |-> "fetch",         \* fetch, analyze, swap, done
    blacklisted |-> FALSE,  \* asset was in the blacklist when handled
    offWhitelist |-> FALSE, \* whitelist was non-empty and lacked the asset
    whitelistEmpty |-> TRUE, \* whitelist was empty when handled
    lookupFailed |-> FALSE, \* a metadata or price lookup threw or failed
    quote |-> "-",          \* getTokenPrice's result inside analyzeToken
    evals |-> 0,            \* calls of analyzeToken / analyzeSolanaToken
    verdict |-> "-",        \* safe, unsafe, threw
    flagged |-> {},         \* red-flag terms the analysis logged
    outcome |-> "-",        \* where the pipeline ended
    swapCalls |-> 0,        \* entry calls of the adapter's swapTokens
    simulated |-> FALSE,    \* the snipe result carries simulated: true
    positionId |-> 0,       \* Solana: key in activeStrategies
    loop |-> "none",        \* none, pricing, running, cleared
    entryPrice |-> 0, takeProfitPrice |-> 0, stopLossPrice |-> 0,
    polls |-> 0,            \* ticks of the loop so far
    hits |-> 0,             \* ticks that met a threshold
    lastPrice |-> 0,        \* the reading of the latest tick
    lastHit |-> "-",        \* branch the latest tick took, - for none
    pollFailed |-> FALSE,   \* the latest tick's price lookup failed
    idleOnEmpty |-> FALSE,  \* a tick before any hit met no threshold
                            \* while the wallet held less than the dust
    balanceFailed |-> FALSE, \* the latest sell's balance lookup threw
    trigger |-> "-",        \* branch of the latest hit
    inBalance |-> 0,        \* sells awaiting getTokenBalance
    inSwap |-> 0,           \* sells awaiting the exit swap
    exitSwaps |-> 0,        \* exit calls of the adapter's swapTokens
    sellBalance |-> 0,      \* balance behind the latest exit swap
    sellAmount |-> 0,       \* amount of the latest exit swap
    sold |-> 0,             \* exit swaps that confirmed
    swapsAtStop |-> 0 - 1 ] \* exitSwaps when stopAllMonitors first returned
                            \* over this position, -1 before that

Constructed ==
  /\ initialized = FALSE
  /\ adapters = [c \in MonitoredChains |-> FALSE]
  /\ listening = [c \in MonitoredChains |-> 0]
  /\ monitors = [c \in MonitoredChains |-> "none"]
  /\ stopped = FALSE
  /\ wallet \in BOOLEAN
  /\ tokenBlacklist = {}
  /\ tokenWhitelist = {}
  /\ listCalls = 0
  /\ events = << >>
  /\ activeStrategies = << >>
  /\ now = 0
  /\ dailyTransactions =
       [c \in MonitoredChains |->
          [total |-> 0, count |-> 0, transactions |-> 0]]
  /\ securityInitialized = FALSE
  /\ validation = [kind |-> "-", chain |-> "-", amount |-> "-",
                   valid |-> FALSE, reason |-> "-",
                   approved |-> [c \in MonitoredChains |-> 0]]
  /\ arbitrage = [kind |-> "-", krakenPrice |-> "-", binancePrice |-> "-",
                  executed |-> FALSE, reason |-> "-", orders |-> << >>]

Init ==
  /\ config \in Configs
  /\ Constructed

\* ------------------------------------------------------- adapter results
\* EthereumModule.getTokenPrice: the formatted quote, "0" when anything in
\* the lookup throws
getTokenPrice(ok, amount) == IF ok THEN formatUnits(amount) ELSE "0"

\* getTokenBalance results (a failed lookup throws instead)
BalanceValues == {"0.0", "1000.0"}

\* SolanaModule.getTokenBalance
solanaBalance == "1000.0"

\* priceChangePercent = Math.random() * 20 - 10, in hundredths of a percent
PriceChanges == {0 - 1000, 0, 10, 999}

\* ------------------------------------------------------------- the lists
addToBlacklist(list, token) == list \cup {toLowerCase(token)}

addToWhitelist(list, token) == list \cup {toLowerCase(token)}

AddToBlacklist(t) ==
  /\ listCalls < MaxListCalls
  /\ tokenBlacklist' = addToBlacklist(tokenBlacklist, t)
  /\ listCalls' = listCalls + 1
  /\ UNCHANGED << config, initialized, adapters, listening, monitors,
                  stopped,
                  wallet, tokenWhitelist,
                  events, activeStrategies, now, dailyTransactions,
                  securityInitialized, validation,
                  arbitrage >>

AddToWhitelist(t) ==
  /\ listCalls < MaxListCalls
  /\ tokenWhitelist' = addToWhitelist(tokenWhitelist, t)
  /\ listCalls' = listCalls + 1
  /\ UNCHANGED << config, initialized, adapters, listening, monitors,
                  stopped,
                  wallet, tokenBlacklist,
                  events, activeStrategies, now, dailyTransactions,
                  securityInitialized, validation,
                  arbitrage >>

\* ------------------------------------------------------------ initialize
\* MultiChainLiquidityDetector.initialize.  The first call must bring every
\* chain module up (ethereum.initialize fails without a provider); a module
\* that is up is not initialized again, so a later call cannot fail.  Every
\* successful call registers a further PairCreated handler on the factory
\* and starts a further Bitcoin and Solana interval, and stores the new
\* handles over the old ones in this.monitors.  All three modules are asked
\* before the results are tested: the Bitcoin and Solana modules always
\* come up, and a failure of any one starts no monitor at all.
\* LiquidityDetector.initialize, whose result is not looked at, registers
\* the PairCreated handler only when the preferred DEXes include uniswap;
\* setupEthereumMonitor stores the Ethereum monitor in either case.
preferredDexes ==
  IF "preferredDexes" \in DOMAIN config
  THEN config.preferredDexes ELSE {"uniswap", "sushiswap"}

\* handlers one LiquidityDetector.initialize adds to the factory
setupUniswapListener(dexes) == IF "uniswap" \in dexes THEN 1 ELSE 0

Initialize(ok) ==
  /\ ok \/ ~initialized
  /\ initialized' = (initialized \/ ok)
  /\ adapters' = [c \in MonitoredChains |->
                    IF c = "ethereum" THEN adapters[c] \/ ok ELSE TRUE]
  /\ listening' =
       IF ok
       THEN [c \in MonitoredChains |->
               IF c = "ethereum"
               THEN listening[c] + setupUniswapListener(preferredDexes)
               ELSE listening[c] + 1]
       ELSE listening
  /\ monitors' = IF ok THEN [c \in MonitoredChains |-> "live"] ELSE monitors
  /\ stopped' = IF ok THEN FALSE ELSE stopped
  /\ UNCHANGED << config, wallet, tokenBlacklist, tokenWhitelist, listCalls,
                  events, activeStrategies, now, dailyTransactions,
                  securityInitialized, validation,
                  arbitrage >>

\* ------------------------------------------------------------------ stop
\* a stop that did not test the monitor before calling into it
stopUnguarded(m) == IF m = "none" THEN "threw" ELSE "stopped"

\* stopAllMonitors on one entry of this.monitors: entries that exist are
\* stopped (active is never reset), chains without an entry are not visited
stopOutcome(m) == IF m = "none" THEN "skipped" ELSE "stopped"

\* live subscriptions / pollers of chain c after its monitor's stop():
\* removeAllListeners drops every PairCreated handler, clearInterval stops
\* the one interval the monitor holds (a no-op once that one is stopped)
stopListening(c, count, m) ==
  IF stopOutcome(m) # "stopped" THEN count
  ELSE IF c = "ethereum" THEN 0
  ELSE IF m = "live" THEN count - 1
  ELSE count

\* a stop that also closed the positions
stopClosesStrategy(position) ==
  [position EXCEPT !.status = "closed", !.closeReason = "stopped"]

\* stopAllMonitors on one entry of activeStrategies: clearInterval only
stopStrategy(position) == position

\* the interval id kept in an entry of activeStrategies is the one written
\* by the latest set-up under that position id
storedInterval(evs, i) ==
  \A j \in DOMAIN evs :
     (j > i /\ evs[j].positionId = evs[i].positionId) => evs[j].loop = "none"

\* the loops stopAllMonitors clears: those whose interval id is stored in
\* activeStrategies (the Solana positions); the Ethereum loops' ids live in
\* setupPositionManagement's closure and are out of its reach
stopLoops(evs, strategies) ==
  [i \in DOMAIN evs |->
     IF /\ evs[i].chain = "solana"
        /\ evs[i].positionId \in DOMAIN strategies
        /\ evs[i].loop = "running"
        /\ storedInterval(evs, i)
     THEN [evs[i] EXCEPT !.loop = "cleared"]
     ELSE evs[i]]

\* note on every position that exists what it had sold when the stop
\* returned
markStop(evs) ==
  [i \in DOMAIN evs |->
     IF evs[i].loop # "none" /\ evs[i].swapsAtStop < 0
     THEN [evs[i] EXCEPT !.swapsAtStop = evs[i].exitSwaps]
     ELSE evs[i]]

\* the subscriptions and pollers left once every monitor was visited
listeningAfterStop(l, m) ==
  [c \in MonitoredChains |-> stopListening(c, l[c], m[c])]

\* this.monitors once every monitor was visited
monitorsAfterStop(m) ==
  [c \in MonitoredChains |->
     IF stopOutcome(m[c]) = "stopped" THEN "stopped" ELSE m[c]]

\* MultiChainLiquidityDetector.stopAllMonitors (synchronous)
StopAllMonitors ==
  /\ listening' = listeningAfterStop(listening, monitors)
  /\ monitors' = monitorsAfterStop(monitors)
  /\ stopped' = TRUE
  /\ activeStrategies' =
       [id \in DOMAIN activeStrategies |-> stopStrategy(activeStrategies[id])]
  /\ events' = markStop(stopLoops(events, activeStrategies))
  /\ UNCHANGED << config, initialized, adapters, wallet, tokenBlacklist,
                  tokenWhitelist,
                  listCalls, now, dailyTransactions,
                  securityInitialized, validation,
                  arbitrage >>

\* LiquidityDetector.stopListeners called on its own
StopListeners ==
  /\ listening' = [listening EXCEPT !["ethereum"] = 0]
  /\ UNCHANGED << config, initialized, adapters, monitors, stopped, wallet,
                  tokenBlacklist, tokenWhitelist, listCalls, events,
                  activeStrategies, now, dailyTransactions,
                  securityInitialized, validation,
                  arbitrage >>

\* ------------------------------------------------ Ethereum: the listener
isWeth(a) == toLowerCase(a) = toLowerCase(WETH_ADDRESS)

\* listenForNewPairs: hasEth of the pair data
hasEth(t0, t1) == isWeth(t0) \/ isWeth(t1)

\* setupUniswapListener: the token of the pair that is not WETH
nonEthToken(t0, t1) == IF isWeth(t0) THEN t1 ELSE t0

inBlacklist(a) == toLowerCase(a) \in tokenBlacklist

\* the whitelist excludes a only when it is non-empty
offWhitelist(a) ==
  Cardinality(tokenWhitelist) > 0 /\ toLowerCase(a) \notin tokenWhitelist

\* setupUniswapListener's checks before analyzeToken, in the code's order
pairFilter(t0, t1, liquidityUSD) ==
  IF ~hasEth(t0, t1) THEN "noEth"
  ELSE IF Lt(parseFloat(liquidityUSD), minLiquidityUSD) THEN "lowLiquidity"
  ELSE IF inBlacklist(nonEthToken(t0, t1)) THEN "blacklisted"
  ELSE IF offWhitelist(nonEthToken(t0, t1)) THEN "notWhitelisted"
  ELSE "analyze"

\* the number of the next emission: events holds them in emission order
nextEmission(evs) ==
  IF evs = << >> THEN 1 ELSE evs[Len(evs)].emission + 1

\* the factory emits PairCreated(token0, token1): every handler that
\* listenForNewPairs registered starts, in registration order, and awaits
\* the token metadata and the pair's liquidity
PairCreated(p) ==
  /\ listening["ethereum"] > 0
  /\ events' = events \o [k \in 1..listening["ethereum"] |->
                            [NewEvent("ethereum", p[1], p[2]) EXCEPT
                               !.emission = nextEmission(events)]]
  /\ UNCHANGED << config, initialized, adapters, listening, monitors,
                  stopped,
                  wallet, tokenBlacklist, tokenWhitelist, listCalls,
                  activeStrategies, now, dailyTransactions,
                  securityInitialized, validation,
                  arbitrage >>

\* a listener that hands an event to the callback only once every earlier
\* event has left the pipeline (a serial queue in front of the detector)
DeliverPairInTurn(i, infoOk, liquidityUSD) ==
  LET e == events[i]
      a == nonEthToken(e.token0, e.token1)
      f == pairFilter(e.token0, e.token1, liquidityUSD)
      e1 == [e EXCEPT !.liquidityUSD = liquidityUSD,
                      !.asset = IF hasEth(e.token0, e.token1) THEN a ELSE "-",
                      !.blacklisted =
                        hasEth(e.token0, e.token1) /\ inBlacklist(a),
                      !.offWhitelist =
                        hasEth(e.token0, e.token1) /\ offWhitelist(a),
                      !.whitelistEmpty = (tokenWhitelist = {})]
  IN
  /\ e.chain = "ethereum"
  /\ e.pc = "fetch"
  /\ \A j \in DOMAIN events : j # i => events[j].pc \in {"fetch", "done"}
  /\ events' = [events EXCEPT ![i] =
       IF ~infoOk
       THEN [e EXCEPT !.pc = "done", !.outcome = "dropped"]
       ELSE IF f = "analyze"
       THEN [e1 EXCEPT !.pc = "analyze", !.evals = @ + 1]
       ELSE [e1 EXCEPT !.pc = "done", !.outcome = f]]
  /\ UNCHANGED << config, initialized, adapters, listening, monitors,
                  stopped,
                  wallet, tokenBlacklist,
                  tokenWhitelist, listCalls, activeStrategies, now,
                  dailyTransactions,
                  securityInitialized, validation,
                  arbitrage >>

\* the metadata arrived (or getTokenInfo threw and the event is dropped);
\* the detector's callback runs up to its await of analyzeToken
DeliverPair(i, infoOk, liquidityUSD) ==
  LET e == events[i]
      a == nonEthToken(e.token0, e.token1)
      f == pairFilter(e.token0, e.token1, liquidityUSD)
      e1 == [e EXCEPT !.liquidityUSD = liquidityUSD,
                      !.asset = IF hasEth(e.token0, e.token1) THEN a ELSE "-",
                      !.blacklisted =
                        hasEth(e.token0, e.token1) /\ inBlacklist(a),
                      !.offWhitelist =
                        hasEth(e.token0, e.token1) /\ offWhitelist(a),
                      !.whitelistEmpty = (tokenWhitelist = {})]
  IN
  /\ e.chain = "ethereum"
  /\ e.pc = "fetch"
  /\ events' = [events EXCEPT ![i] =
       IF ~infoOk
       THEN [e EXCEPT !.pc = "done", !.outcome = "dropped"]
       ELSE IF f = "analyze"
       THEN [e1 EXCEPT !.pc = "analyze", !.evals = @ + 1]
       ELSE [e1 EXCEPT !.pc = "done", !.outcome = f]]
  /\ UNCHANGED << config, initialized, adapters, listening, monitors,
                  stopped,
                  wallet, tokenBlacklist,
                  tokenWhitelist, listCalls, activeStrategies, now,
                  dailyTransactions,
                  securityInitialized, validation,
                  arbitrage >>

\* --------------------------------------------------------- analyzeToken
\* analyzeToken with its outer catch removed: getTokenInfo's error escapes
analyzeTokenUncaught(infoOk, quote) ==
  IF ~infoOk THEN "threw"
  ELSE IF quote = "0" THEN "unsafe"
  ELSE "safe"

\* a handler that goes on to the snipe whatever the analysis returned
snipeRegardless(verdict) == TRUE

\* the name and symbol getTokenInfo reads from the token's contract
getTokenInfo(address) ==
  CASE address = "0xAbC" -> [name |-> "SafeMoon", symbol |-> "SAFE"]
    [] address = "So1a" -> [name |-> "Moon Gem", symbol |-> "MGEM"]
    [] OTHER -> [name |-> "Token", symbol |-> "TKN"]

\* (tokenInfo.name + tokenInfo.symbol).toLowerCase()
nameSymbolLower(tokenInfo) ==
  CASE tokenInfo.name = "SafeMoon" -> "safemoonsafe"
    [] tokenInfo.name = "Moon Gem" -> "moon gemmgem"
    [] OTHER -> "tokentkn"

\* String.prototype.includes on the strings above
includes(s, term) ==
  CASE s = "safemoonsafe" -> term \in {"safe", "moon"}
    [] s = "moon gemmgem" -> term \in {"moon", "gem"}
    [] OTHER -> FALSE

redFlagTerms == {"scam", "ponzi", "moon", "elon", "safe", "gem", "pump"}

\* the terms the loop over redFlagTerms logs with logger.warn; the loop
\* does nothing else
flaggedTerms(address) ==
  {term \in redFlagTerms :
     includes(nameSymbolLower(getTokenInfo(address)), term)}

\* the warnings a caller finds in the value analyzeToken or
\* analyzeSolanaToken returned: the value is a boolean and carries none
warningsOf(verdict) == {}

\* LiquidityDetector.analyzeToken: getTokenInfo's error is caught (unsafe);
\* the quote blocks only when it is the string "0"
analyzeToken(infoOk, quote) ==
  IF ~infoOk THEN "unsafe"
  ELSE IF quote = "0" THEN "unsafe"
  ELSE "safe"

\* the handlers go on to the snipe only when the analysis returned true
tokenSafe(verdict) == verdict = "safe"

\* executeSnipe up to its first await: simulated when trading is disabled,
\* otherwise ethereum.swapTokens is called
AnalyzeDone(i, infoOk, priceOk, amount) ==
  LET e == events[i]
      q == IF infoOk THEN getTokenPrice(priceOk, amount) ELSE "-"
      v == analyzeToken(infoOk, q)
      e1 == [e EXCEPT !.quote = q, !.verdict = v,
                      !.flagged =
                        IF infoOk THEN flaggedTerms(e.asset) ELSE {},
                      !.lookupFailed = (~infoOk \/ ~priceOk)]
  IN
  /\ e.chain = "ethereum"
  /\ e.pc = "analyze"
  /\ events' = [events EXCEPT ![i] =
       IF ~tokenSafe(v)
       THEN [e1 EXCEPT !.pc = "done", !.outcome = v]
       ELSE IF ~config.ethTradingEnabled
       THEN [e1 EXCEPT !.pc = "done", !.outcome = "simulated",
                       !.simulated = TRUE]
       ELSE [e1 EXCEPT !.pc = "swap", !.swapCalls = @ + 1]]
  /\ UNCHANGED << config, initialized, adapters, listening, monitors,
                  stopped,
                  wallet, tokenBlacklist,
                  tokenWhitelist, listCalls, activeStrategies, now,
                  dailyTransactions,
                  securityInitialized, validation,
                  arbitrage >>

\* an executeSnipe and a callback without their catch blocks: the swap's
\* error leaves the handler as an unhandled rejection and ends the process,
\* and with it every subscription, poller and loop
SwapDoneUncaught(i, ok) ==
  LET e == events[i] IN
  /\ e.chain = "ethereum"
  /\ e.pc = "swap"
  /\ events' =
       IF ok
       THEN [events EXCEPT ![i] =
               [e EXCEPT !.pc = "done", !.outcome = "success",
                         !.loop = "pricing"]]
       ELSE [j \in DOMAIN events |->
               IF j = i THEN [e EXCEPT !.pc = "done", !.outcome = "failure"]
               ELSE [events[j] EXCEPT
                       !.loop = IF @ = "none" THEN @ ELSE "cleared"]]
  /\ listening' =
       IF ok THEN listening ELSE [c \in MonitoredChains |-> 0]
  /\ UNCHANGED << config, initialized, adapters, monitors, stopped,
                  wallet, tokenBlacklist,
                  tokenWhitelist, listCalls, activeStrategies, now,
                  dailyTransactions,
                  securityInitialized, validation,
                  arbitrage >>

\* executeSnipe after ethereum.swapTokens: a receipt starts position
\* management (which first asks for the price), a throw is a failure result
SwapDone(i, ok) ==
  LET e == events[i] IN
  /\ e.chain = "ethereum"
  /\ e.pc = "swap"
  /\ events' = [events EXCEPT ![i] =
       IF ok
       THEN [e EXCEPT !.pc = "done", !.outcome = "success",
                      !.loop = "pricing"]
       ELSE [e EXCEPT !.pc = "done", !.outcome = "failure"]]
  /\ UNCHANGED << config, initialized, adapters, listening, monitors,
                  stopped,
                  wallet, tokenBlacklist,
                  tokenWhitelist, listCalls, activeStrategies, now,
                  dailyTransactions,
                  securityInitialized, validation,
                  arbitrage >>

\* --------------------------------------------- Ethereum: position loops
\* The error of the IEEE product initialPrice * (1 + pct / 100) against the
\* decimal result, in units of the spare digit: 100 * (1 + 10 / 100) is
\* 110.00000000000001; every other product of the model is exact or rounds
\* to the double its decimal parses to.
roundingError(price, pct) ==
  IF price = 100 * 1000 /\ pct = 1000 THEN 1 ELSE 0

\* setupPositionManagement: parseFloat(initialPrice) * (1 + pct / 100)
takeProfitPrice(initialPrice, pct) ==
  (initialPrice * (10000 + pct)) \div 10000 + roundingError(initialPrice, pct)

\* setupPositionManagement: parseFloat(initialPrice) * (1 - pct / 100)
stopLossPrice(initialPrice, pct) ==
  (initialPrice * (10000 - pct)) \div 10000

\* a sell of the whole balance
sellWholeBalance(balance) == balance

\* sellPosition / closeSolanaPosition: parseFloat(balance) * 0.95
sellAmountOf(balance) == (balance * 95) \div 100

\* setupPositionManagement: the entry price arrived, the thresholds are
\* fixed and setInterval starts the loop
PositionSetUp(i, priceOk, amount) ==
  LET e == events[i]
      initialPrice == parseFloat(getTokenPrice(priceOk, amount))
  IN
  /\ e.chain = "ethereum"
  /\ e.loop = "pricing"
  /\ events' = [events EXCEPT ![i] =
       [e EXCEPT !.loop = "running",
                 !.entryPrice = initialPrice,
                 !.takeProfitPrice =
                   takeProfitPrice(initialPrice, config.takeProfitPercentage),
                 !.stopLossPrice =
                   stopLossPrice(initialPrice, config.stopLossPercentage)]]
  /\ UNCHANGED << config, initialized, adapters, listening, monitors,
                  stopped,
                  wallet, tokenBlacklist,
                  tokenWhitelist, listCalls, activeStrategies, now,
                  dailyTransactions,
                  securityInitialized, validation,
                  arbitrage >>

\* a tick that tests the stop-loss first
stopLossFirst(price, takeProfit, stopLoss) ==
  IF Le(price, stopLoss) THEN "stop-loss"
  ELSE IF Ge(price, takeProfit) THEN "take-profit"
  ELSE "-"

\* the branch one tick takes on its price reading: take-profit is tested
\* first, stop-loss second
thresholdHit(price, takeProfit, stopLoss) ==
  IF Ge(price, takeProfit) THEN "take-profit"
  ELSE IF Le(price, stopLoss) THEN "stop-loss"
  ELSE "-"

\* the smallest balance a loop treats as a holding (0.001)
dust == 1

\* one tick of the interval, up to its await of sellPosition (a tick that
\* meets no threshold ends here); getTokenPrice never throws.  balance is
\* what the wallet holds of the token at the tick: the tick does not read it.
PollPrice(i, priceOk, amount, balance) ==
  LET e == events[i]
      currentPrice == parseFloat(getTokenPrice(priceOk, amount))
      hit == thresholdHit(currentPrice, e.takeProfitPrice, e.stopLossPrice)
      e1 == [e EXCEPT !.polls = @ + 1, !.lastPrice = currentPrice,
                      !.lastHit = hit, !.pollFailed = ~priceOk,
                      !.idleOnEmpty =
                        @ \/ ( /\ hit = "-"
                               /\ e.hits = 0
                               /\ Lt(parseFloat(balance), dust) )]
  IN
  /\ e.chain = "ethereum"
  /\ e.loop = "running"
  /\ e.polls < MaxPolls
  /\ events' = [events EXCEPT ![i] =
       IF hit = "-" THEN e1
       ELSE [e1 EXCEPT !.hits = @ + 1, !.trigger = hit,
                       !.inBalance = @ + 1]]
  /\ UNCHANGED << config, initialized, adapters, listening, monitors,
                  stopped,
                  wallet, tokenBlacklist, tokenWhitelist, listCalls,
                  activeStrategies, now, dailyTransactions,
                  securityInitialized, validation,
                  arbitrage >>

\* sellPosition after getTokenBalance: a throw or an empty balance ends the
\* sell without a swap, and the tick then clears the interval; otherwise
\* 95 % of the balance goes to ethereum.swapTokens
SellBalance(i, balanceOk, balance) ==
  LET e == events[i]
      b == parseFloat(balance)
  IN
  /\ e.chain = "ethereum"
  /\ e.inBalance > 0
  /\ events' = [events EXCEPT ![i] =
       IF ~balanceOk
       THEN [e EXCEPT !.inBalance = @ - 1, !.loop = "cleared",
                      !.balanceFailed = TRUE]
       ELSE IF Le(b, 0)
       THEN [e EXCEPT !.inBalance = @ - 1, !.loop = "cleared",
                      !.balanceFailed = FALSE]
       ELSE [e EXCEPT !.inBalance = @ - 1, !.sellBalance = b,
                      !.balanceFailed = FALSE,
                      !.sellAmount = sellAmountOf(b),
                      !.exitSwaps = @ + 1, !.inSwap = @ + 1]]
  /\ UNCHANGED << config, initialized, adapters, listening, monitors,
                  stopped,
                  wallet, tokenBlacklist,
                  tokenWhitelist, listCalls, activeStrategies, now,
                  dailyTransactions,
                  securityInitialized, validation,
                  arbitrage >>

\* sellPosition after the exit swap: it returns a result whether the swap
\* confirmed or threw, and the tick clears the interval
SellSwapDone(i, ok) ==
  LET e == events[i] IN
  /\ e.chain = "ethereum"
  /\ e.inSwap > 0
  /\ events' = [events EXCEPT ![i] =
       [e EXCEPT !.inSwap = @ - 1, !.loop = "cleared",
                 !.sold = @ + (IF ok THEN 1 ELSE 0)]]
  /\ UNCHANGED << config, initialized, adapters, listening, monitors,
                  stopped,
                  wallet, tokenBlacklist,
                  tokenWhitelist, listCalls, activeStrategies, now,
                  dailyTransactions,
                  securityInitialized, validation,
                  arbitrage >>

\* ---------------------------------------------------------------- Solana
\* SolanaModule.swapTokens on the initialized module: it throws without a
\* wallet, returns a result marked simulated when trading is disabled and
\* a swap result otherwise
solanaSwapTokens ==
  IF ~wallet THEN "throw"
  ELSE IF ~config.solTradingEnabled THEN "simulated"
  ELSE "swapped"

\* MultiChainLiquidityDetector.analyzeSolanaToken: getTokenInfo's error is
\* caught (unsafe); otherwise the verdict is Math.random() > 0.2
analyzeSolanaToken(infoOk, isSafe) ==
  IF ~infoOk THEN "unsafe"
  ELSE IF isSafe THEN "safe"
  ELSE "unsafe"

\* setupSolanaPositionManagement: the entry stored under the position id
newStrategy(tokenAddress) ==
  [ type |-> "solana-position", tokenAddress |-> tokenAddress,
    takeProfitPercentage |-> config.takeProfitPercentage,
    stopLossPercentage |-> config.stopLossPercentage,
    status |-> "active", closeReason |-> "-", closeTimestamp |-> 0,
    closeResult |-> "-" ]

\* One tick of monitorNewTokens' interval that finds a token.  The stub
\* adapter's promises are already resolved, so the whole pipeline of the
\* event (callback, analyzeSolanaToken, executeSolanaSnipe, position
\* set-up) runs before any other timer or handler.  The ticks of one
\* interval are a minute apart, so the clock reads a later time; when the
\* monitor has been started twice the tick of the second interval can
\* follow that of the first within the millisecond and Date.now() is the
\* same reading.
DateNow ==
  IF listening["solana"] > 1 /\ now > 0 THEN {now, now + 1} ELSE {now + 1}

NewSolanaToken(t, isSafe) ==
  \E id \in DateNow :
  LET v == analyzeSolanaToken(TRUE, isSafe)
      r == solanaSwapTokens
      e == [NewEvent("solana", t, "-") EXCEPT
              !.emission = nextEmission(events),
              !.asset = t, !.pc = "done", !.evals = 1, !.verdict = v,
              !.flagged = flaggedTerms(t),
              !.blacklisted = inBlacklist(t),
              !.offWhitelist = offWhitelist(t),
              !.whitelistEmpty = (tokenWhitelist = {})]
      opened == tokenSafe(v) /\ config.snipingEnabled /\ r # "throw"
  IN
  /\ listening["solana"] > 0
  /\ now' = id
  /\ events' = Append(events,
       IF ~tokenSafe(v) THEN [e EXCEPT !.outcome = v]
       ELSE IF ~config.snipingEnabled THEN [e EXCEPT !.outcome = "snipingOff"]
       ELSE IF r = "throw"
       THEN [e EXCEPT !.outcome = "failure", !.swapCalls = 1]
       ELSE [e EXCEPT !.outcome = "success", !.swapCalls = 1,
                      !.simulated = (r = "simulated"),
                      !.positionId = id, !.loop = "running"])
  /\ activeStrategies' =
       IF opened THEN (id :> newStrategy(t)) @@ activeStrategies
       ELSE activeStrategies
  /\ UNCHANGED << config, initialized, adapters, listening, monitors,
                  stopped,
                  wallet, tokenBlacklist,
                  tokenWhitelist, listCalls, dailyTransactions,
                  securityInitialized, validation,
                  arbitrage >>

\* closeSolanaPosition on a registered position: an empty balance closes
\* without a swap; a swap that throws leaves the entry as it was
closeSolanaPosition(position, reason, balance, swapResult) ==
  IF Le(balance, 0)
  THEN [position EXCEPT !.status = "closed", !.closeReason = reason,
                        !.closeTimestamp = now]
  ELSE IF swapResult = "throw" THEN position
  ELSE [position EXCEPT !.status = "closed", !.closeReason = reason,
                        !.closeTimestamp = now, !.closeResult = swapResult]

\* the branch one Solana tick takes on its simulated price change
solanaThresholdHit(priceChangePercent, position) ==
  IF priceChangePercent >= position.takeProfitPercentage THEN "take-profit"
  ELSE IF priceChangePercent <= 0 - position.stopLossPercentage
  THEN "stop-loss"
  ELSE "-"

\* one tick of a Solana position's interval (again a single turn of the
\* event loop: the stub adapter answers at once)
SolanaPoll(i, priceChangePercent) ==
  LET e == events[i]
      id == e.positionId
      balance == parseFloat(solanaBalance)
      e1 == [e EXCEPT !.polls = @ + 1]
  IN
  /\ e.chain = "solana"
  /\ e.loop = "running"
  /\ e.polls < MaxPolls
  /\ IF id \notin DOMAIN activeStrategies
        \/ activeStrategies[id].status # "active"
     THEN /\ events' = [events EXCEPT ![i] = [e1 EXCEPT !.loop = "cleared"]]
          /\ UNCHANGED activeStrategies
     ELSE IF Lt(balance, dust)
     THEN /\ events' = [events EXCEPT ![i] = [e1 EXCEPT !.loop = "cleared"]]
          /\ activeStrategies' =
               [activeStrategies EXCEPT ![id].status = "closed"]
     ELSE LET hit == solanaThresholdHit(priceChangePercent,
                                        activeStrategies[id])
              e2 == [e1 EXCEPT !.lastPrice = priceChangePercent,
                               !.lastHit = hit]
          IN
          IF hit = "-"
          THEN /\ events' = [events EXCEPT ![i] = e2]
               /\ UNCHANGED activeStrategies
          ELSE /\ events' = [events EXCEPT ![i] =
                    [e2 EXCEPT !.hits = @ + 1, !.trigger = hit,
                               !.loop = "cleared",
                               !.sellBalance = balance,
                               !.sellAmount =
                                 IF Le(balance, 0) THEN @
                                 ELSE sellAmountOf(balance),
                               !.exitSwaps =
                                 IF Le(balance, 0) THEN @ ELSE @ + 1,
                               !.sold =
                                 IF Le(balance, 0)
                                    \/ solanaSwapTokens = "throw"
                                 THEN @ ELSE @ + 1]]
               /\ activeStrategies' =
                    [activeStrategies EXCEPT ![id] =
                       closeSolanaPosition(@, hit, balance,
                                           solanaSwapTokens)]
  /\ UNCHANGED << config, initialized, adapters, listening, monitors,
                  stopped,
                  wallet, tokenBlacklist,
                  tokenWhitelist, listCalls, now, dailyTransactions,
                  securityInitialized, validation,
                  arbitrage >>

\* closeSolanaPosition(positionId, tokenAddress, 'manual') called on the
\* position of event i: the entry is looked up (a missing one throws and
\* nothing happens), its status is not tested, the balance is sold and the
\* entry is written as in a close from the loop.  The loop is not cleared
\* here: its next tick finds the status and clears itself.
MaxCloses == 2

CloseSolanaPosition(i) ==
  LET e == events[i]
      id == e.positionId
      balance == parseFloat(solanaBalance)
  IN
  /\ e.chain = "solana"
  /\ id \in DOMAIN activeStrategies
  /\ e.exitSwaps < MaxCloses
  /\ events' = [events EXCEPT ![i] =
       [e EXCEPT !.sellBalance = balance,
                 !.sellAmount =
                   IF Le(balance, 0) THEN @ ELSE sellAmountOf(balance),
                 !.exitSwaps = IF Le(balance, 0) THEN @ ELSE @ + 1,
                 !.sold =
                   IF Le(balance, 0) \/ solanaSwapTokens = "throw"
                   THEN @ ELSE @ + 1]]
  /\ activeStrategies' =
       [activeStrategies EXCEPT ![id] =
          closeSolanaPosition(@, "manual", balance, solanaSwapTokens)]
  /\ UNCHANGED << config, initialized, adapters, listening, monitors,
                  stopped,
                  wallet, tokenBlacklist,
                  tokenWhitelist, listCalls, now, dailyTransactions,
                  securityInitialized, validation,
                  arbitrage >>

\* -------------------------------------------------------------- Bitcoin
\* BitcoinModule.getBitcoinPrice: the placeholder price, whatever the
\* exchange
getBitcoinPrice(exchange) == "65000"

\* trading.bitcoin.minArbitrageProfit (0.5), in thousandths of a percent
minArbitrageProfit == 500

\* trading.bitcoin.arbitrageEnabled
arbitrageEnabled == TRUE

\* the prices executeBitcoinArbitrage is called with: equal, 0.5 % apart,
\* just over 0.5 % apart and further apart
ArbitragePrices == {"64000", "64320", "64321", "65000"}

\* ((high - low) / base) * 100 in thousandths of a percent, rounded up to
\* the next thousandth: against a threshold that is a whole number of
\* thousandths, > and <= decide as they do on the quotient itself.  The
\* prices are whole numbers of the quote currency.
percentOf(difference, base) ==
  IF difference = NaN \/ base = NaN THEN NaN
  ELSE LET d == base \div 1000
       IN (difference * 100 + d - 1) \div d

\* BitcoinModule.executeTrade: throws on a module that is not initialized,
\* otherwise returns a trade result (marked simulated when trading is
\* disabled)
executeTrade(init) == IF init THEN "traded" ELSE "throw"

\* an arbitrage that also trades when the spread equals the minimum
arbitrageAtMinimum(init, krakenPrice, binancePrice) ==
  LET k == parseFloat(krakenPrice)
      b == parseFloat(binancePrice)
      buyExchange == IF Lt(k, b) THEN "kraken" ELSE "binance"
      sellExchange == IF buyExchange = "kraken" THEN "binance" ELSE "kraken"
      buyPrice == IF buyExchange = "kraken" THEN k ELSE b
      sellPrice == IF sellExchange = "kraken" THEN k ELSE b
  IN
  IF Lt(percentOf(sellPrice - buyPrice, buyPrice), minArbitrageProfit)
  THEN [executed |-> FALSE, reason |-> "Profit too low", orders |-> << >>]
  ELSE IF executeTrade(init) = "throw"
  THEN [executed |-> FALSE, reason |-> "Error", orders |-> << >>]
  ELSE [executed |-> TRUE, reason |-> "-",
        orders |-> << <<buyExchange, "buy">>, <<sellExchange, "sell">> >>]

\* MultiChainLiquidityDetector.executeBitcoinArbitrage: the result and the
\* orders submitted.  An error of the buy order (the only one that can
\* occur: the module is not initialized) is caught and reported.
executeBitcoinArbitrage(init, krakenPrice, binancePrice) ==
  LET k == parseFloat(krakenPrice)
      b == parseFloat(binancePrice)
      buyExchange == IF Lt(k, b) THEN "kraken" ELSE "binance"
      sellExchange == IF buyExchange = "kraken" THEN "binance" ELSE "kraken"
      buyPrice == IF buyExchange = "kraken" THEN k ELSE b
      sellPrice == IF sellExchange = "kraken" THEN k ELSE b
      profitPercent == percentOf(sellPrice - buyPrice, buyPrice)
  IN
  IF Le(profitPercent, minArbitrageProfit)
  THEN [executed |-> FALSE, reason |-> "Profit too low", orders |-> << >>]
  ELSE IF executeTrade(init) = "throw"
  THEN [executed |-> FALSE, reason |-> "Error", orders |-> << >>]
  ELSE [executed |-> TRUE, reason |-> "-",
        orders |-> << <<buyExchange, "buy">>, <<sellExchange, "sell">> >>]

\* a call of executeBitcoinArbitrage by the host (the test runner calls it
\* with 64000 and 65000)
ExecuteBitcoinArbitrage(krakenPrice, binancePrice) ==
  LET r == executeBitcoinArbitrage(adapters["bitcoin"], krakenPrice,
                                   binancePrice)
  IN
  /\ arbitrage' = [kind |-> "call", krakenPrice |-> krakenPrice,
                   binancePrice |-> binancePrice, executed |-> r.executed,
                   reason |-> r.reason, orders |-> r.orders]
  /\ UNCHANGED << config, initialized, adapters, listening, monitors,
                  stopped, wallet, tokenBlacklist, tokenWhitelist,
                  listCalls, events, activeStrategies, now,
                  dailyTransactions, securityInitialized, validation >>

\* one tick of setupBitcoinMonitor's interval: both prices are read, and a
\* difference of more than 0.5 % of the Binance price starts the arbitrage
BitcoinPoll ==
  LET krakenPrice == getBitcoinPrice("kraken")
      binancePrice == getBitcoinPrice("binance")
      k == parseFloat(krakenPrice)
      b == parseFloat(binancePrice)
      priceDiff == IF k < b THEN b - k ELSE k - b
      r == executeBitcoinArbitrage(adapters["bitcoin"], krakenPrice,
                                   binancePrice)
  IN
  /\ listening["bitcoin"] > 0
  /\ arbitrage' =
       IF Gt(percentOf(priceDiff, b), 500) /\ arbitrageEnabled
       THEN [kind |-> "tick", krakenPrice |-> krakenPrice,
             binancePrice |-> binancePrice, executed |-> r.executed,
             reason |-> r.reason, orders |-> r.orders]
       ELSE [kind |-> "tick", krakenPrice |-> krakenPrice,
             binancePrice |-> binancePrice, executed |-> FALSE,
             reason |-> "-", orders |-> << >>]
  /\ UNCHANGED << config, initialized, adapters, listening, monitors,
                  stopped, wallet, tokenBlacklist, tokenWhitelist,
                  listCalls, events, activeStrategies, now,
                  dailyTransactions, securityInitialized, validation >>

\* ------------------------------------------------------ SecurityModule
\* this.transactionLimits as the constructor reads it from the test
\* configuration
transactionLimits ==
  [ ethereum |-> [maxTransactionAmount |-> "0.1", dailyLimit |-> "0.5"],
    bitcoin |-> [maxTransactionAmount |-> "0.01", dailyLimit |-> "0.05"],
    solana |-> [maxTransactionAmount |-> "1", dailyLimit |-> "5"] ]

\* the (chain, amount) arguments of validateTransaction: on each chain half
\* the maximum and twice the maximum, on Bitcoin the maximum itself too,
\* and a chain the module has no limits for.  On these amounts the double
\* sums of daily.total decide as the decimal sums do.
RiskInputs ==
  { <<"ethereum", "0.05">>, <<"ethereum", "0.2">>,
    <<"bitcoin", "0.005">>, <<"bitcoin", "0.01">>, <<"bitcoin", "0.02">>,
    <<"solana", "0.5">>, <<"solana", "2">>,
    <<"dogecoin", "0.05">> }

\* the result of a call that is refused: the counters as they were
refused(daily, reason) == [valid |-> FALSE, reason |-> reason, daily |-> daily]

\* the counters after an approval of amount on chain
approvedDaily(daily, chain, amount) ==
  [daily EXCEPT ![chain] =
     [total |-> @.total + parseFloat(amount),
      count |-> @.count + 1,
      transactions |-> @.transactions + 1]]

\* a validator that tests each amount against the daily limit on its own,
\* as concurrent calls would that all read the total before any wrote it
validateUnserialized(init, daily, chain, amount) ==
  IF ~init THEN refused(daily, "Error: Security module not initialized")
  ELSE IF chain \notin DOMAIN transactionLimits
  THEN refused(daily, "Error: Unknown chain")
  ELSE IF Gt(parseFloat(amount),
             parseFloat(transactionLimits[chain].maxTransactionAmount))
  THEN refused(daily, "Transaction amount exceeds maximum allowed")
  ELSE IF Gt(parseFloat(amount),
             parseFloat(transactionLimits[chain].dailyLimit))
  THEN refused(daily, "Transaction would exceed daily limit")
  ELSE [valid |-> TRUE, reason |-> "-",
        daily |-> approvedDaily(daily, chain, amount)]

\* a validator that counts the call before it tests the amount
validateCountsFirst(init, daily, chain, amount) ==
  LET counted ==
        IF chain \in DOMAIN daily
        THEN [daily EXCEPT ![chain].count = @ + 1]
        ELSE daily
  IN
  IF ~init THEN refused(counted, "Error: Security module not initialized")
  ELSE IF chain \notin DOMAIN transactionLimits
  THEN refused(counted, "Error: Unknown chain")
  ELSE IF Gt(parseFloat(amount),
             parseFloat(transactionLimits[chain].maxTransactionAmount))
  THEN refused(counted, "Transaction amount exceeds maximum allowed")
  ELSE IF Gt(daily[chain].total + parseFloat(amount),
             parseFloat(transactionLimits[chain].dailyLimit))
  THEN refused(counted, "Transaction would exceed daily limit")
  ELSE [valid |-> TRUE, reason |-> "-",
        daily |-> approvedDaily(daily, chain, amount)]

\* a validator that refuses an amount equal to the maximum
validateBelowMaximum(init, daily, chain, amount) ==
  IF ~init THEN refused(daily, "Error: Security module not initialized")
  ELSE IF chain \notin DOMAIN transactionLimits
  THEN refused(daily, "Error: Unknown chain")
  ELSE IF Ge(parseFloat(amount),
             parseFloat(transactionLimits[chain].maxTransactionAmount))
  THEN refused(daily, "Transaction amount exceeds maximum allowed")
  ELSE IF Gt(daily[chain].total + parseFloat(amount),
             parseFloat(transactionLimits[chain].dailyLimit))
  THEN refused(daily, "Transaction would exceed daily limit")
  ELSE [valid |-> TRUE, reason |-> "-",
        daily |-> approvedDaily(daily, chain, amount)]

\* SecurityModule.validateTransaction: the two throws are caught and
\* returned as refusals; the amount is tested against the maximum, then the
\* new total against the daily limit; only an approval writes the counters
validateTransaction(init, daily, chain, amount) ==
  IF ~init THEN refused(daily, "Error: Security module not initialized")
  ELSE IF chain \notin DOMAIN transactionLimits
  THEN refused(daily, "Error: Unknown chain")
  ELSE IF Gt(parseFloat(amount),
             parseFloat(transactionLimits[chain].maxTransactionAmount))
  THEN refused(daily, "Transaction amount exceeds maximum allowed")
  ELSE IF Gt(daily[chain].total + parseFloat(amount),
             parseFloat(transactionLimits[chain].dailyLimit))
  THEN refused(daily, "Transaction would exceed daily limit")
  ELSE [valid |-> TRUE, reason |-> "-",
        daily |-> approvedDaily(daily, chain, amount)]

\* SecurityModule.initialize
SecurityInitialize ==
  /\ ~securityInitialized
  /\ securityInitialized' = TRUE
  /\ validation' = [validation EXCEPT !.kind = "initialize"]
  /\ UNCHANGED << config, initialized, adapters, listening, monitors,
                  stopped, wallet, tokenBlacklist, tokenWhitelist,
                  listCalls, events, activeStrategies, now,
                  dailyTransactions, arbitrage >>

\* one call of validateTransaction: it is synchronous, so calls made by
\* concurrent snipes run one after the other, in any order
ValidateTransaction(chain, amount) ==
  LET r == validateTransaction(securityInitialized, dailyTransactions,
                               chain, amount)
  IN
  /\ dailyTransactions' = r.daily
  /\ validation' =
       [kind |-> "validate", chain |-> chain, amount |-> amount,
        valid |-> r.valid, reason |-> r.reason,
        approved |->
          IF r.valid
          THEN [validation.approved EXCEPT ![chain] = @ + parseFloat(amount)]
          ELSE validation.approved]
  /\ UNCHANGED << config, initialized, adapters, listening, monitors,
                  stopped, wallet, tokenBlacklist, tokenWhitelist,
                  listCalls, events, activeStrategies, now,
                  securityInitialized, arbitrage >>

\* the midnight timer setupDailyReset arms: resetDailyTransactions
ResetDailyTransactions ==
  /\ securityInitialized
  /\ dailyTransactions' =
       [c \in MonitoredChains |->
          [total |-> 0, count |-> 0, transactions |-> 0]]
  /\ validation' =
       [validation EXCEPT !.kind = "reset",
                          !.approved = [c \in MonitoredChains |-> 0]]
  /\ UNCHANGED << config, initialized, adapters, listening, monitors,
                  stopped, wallet, tokenBlacklist, tokenWhitelist,
                  listCalls, events, activeStrategies, now,
                  securityInitialized, arbitrage >>

\* ------------------------------------------------------------------ Next
\* Detection, safety filter and snipe on both chains, with the lists
\* changing underneath; position loops are set up and left to LoopSpec.
Next ==
  \/ ~initialized /\ \E ok \in BOOLEAN : Initialize(ok)
  \/ \E t \in ListInputs : AddToBlacklist(t)
  \/ \E t \in ListInputs : AddToWhitelist(t)
  \/ Len(events) < MaxEvents /\ \E p \in Pairs : PairCreated(p)
  \/ \E i \in DOMAIN events, ok \in BOOLEAN, l \in LiquidityValues :
       DeliverPair(i, ok, l)
  \/ \E i \in DOMAIN events, ok \in BOOLEAN, pok \in BOOLEAN,
        a \in EntryQuoteAmounts :
       AnalyzeDone(i, ok, pok, a)
  \/ \E i \in DOMAIN events, ok \in BOOLEAN : SwapDone(i, ok)
  \/ \E i \in DOMAIN events, ok \in BOOLEAN, a \in EntryQuoteAmounts :
       PositionSetUp(i, ok, a)
  \/ Len(events) < MaxEvents
       /\ \E t \in SolTokens, s \in BOOLEAN : NewSolanaToken(t, s)

\* the pipeline does not read the exit percentages: one setting of them
PipelineInit ==
  /\ Init
  /\ config.takeProfitPercentage = 1000

Spec == PipelineInit /\ [][Next]_vars

\* The same pipeline under configurations that also carry the per-chain
\* setting trading.ethereum.tradingEnabled, which no code reads: the
\* snipe and the adapter read exchanges.ethereum.tradingEnabled.
GateConfigs ==
  { [ethTradingEnabled |-> e, snipingEnabled |-> TRUE,
     solTradingEnabled |-> TRUE,
     takeProfitPercentage |-> 1000, stopLossPercentage |-> 500,
     tradingEthereumTradingEnabled |-> c] :
    e \in BOOLEAN, c \in BOOLEAN }

GateInit ==
  /\ config \in GateConfigs
  /\ Constructed

GateSpec == GateInit /\ [][Next]_vars

\* The pipeline under each setting of trading.ethereum.preferredDexes:
\* the default, the test configuration's, and ETH_PREFERRED_DEXES naming
\* another exchange only.
MonitorConfigs ==
  { [ethTradingEnabled |-> e, snipingEnabled |-> TRUE,
     solTradingEnabled |-> TRUE,
     takeProfitPercentage |-> 1000, stopLossPercentage |-> 500,
     preferredDexes |-> d] :
    e \in BOOLEAN,
    d \in { {"uniswap", "sushiswap"}, {"uniswap"}, {"sushiswap"} } }

MonitorInit ==
  /\ config \in MonitorConfigs
  /\ Constructed

MonitorSpec == MonitorInit /\ [][Next]_vars

\* The life of one position on either chain, under every configuration:
\* one approved event, then the ticks of its loop in every interleaving
\* with the sells they start.
LoopNext ==
  \/ ~initialized /\ Initialize(TRUE)
  \/ events = << >> /\ PairCreated(<<WETH_ADDRESS, "0xAbC">>)
  \/ \E i \in DOMAIN events : DeliverPair(i, TRUE, "50000.0")
  \/ \E i \in DOMAIN events : AnalyzeDone(i, TRUE, TRUE, 100)
  \/ \E i \in DOMAIN events, ok \in BOOLEAN : SwapDone(i, ok)
  \/ \E i \in DOMAIN events, ok \in BOOLEAN, a \in EntryQuoteAmounts :
       PositionSetUp(i, ok, a)
  \/ \E i \in DOMAIN events, ok \in BOOLEAN, a \in QuoteAmounts,
        b \in BalanceValues :
       PollPrice(i, ok, a, b)
  \/ \E i \in DOMAIN events, ok \in BOOLEAN, b \in BalanceValues :
       SellBalance(i, ok, b)
  \/ \E i \in DOMAIN events, ok \in BOOLEAN : SellSwapDone(i, ok)
  \/ events = << >> /\ NewSolanaToken("So1a", TRUE)
  \/ \E i \in DOMAIN events, c \in PriceChanges : SolanaPoll(i, c)
  \/ StopAllMonitors

LoopSpec == Init /\ [][LoopNext]_vars

\* The detectors' life: start, start again, stop, and two discoveries on
\* one chain or on both, in every interleaving with the awaits of the
\* Ethereum handlers. One configuration: trading and sniping enabled.
MaxDetected == 3
MaxSubscriptions == 2

DetectInit ==
  /\ Init
  /\ config = [ethTradingEnabled |-> TRUE, snipingEnabled |-> TRUE,
               solTradingEnabled |-> TRUE,
               takeProfitPercentage |-> 1000, stopLossPercentage |-> 500]
  /\ wallet = TRUE

DetectNext ==
  \/ (\A c \in MonitoredChains : listening[c] < MaxSubscriptions)
       /\ \E ok \in BOOLEAN : Initialize(ok)
  \/ Len(events) + listening["ethereum"] <= MaxDetected
       /\ PairCreated(<<WETH_ADDRESS, "0xAbC">>)
  \/ \E i \in DOMAIN events, ok \in BOOLEAN : DeliverPair(i, ok, "50000.0")
  \/ \E i \in DOMAIN events : AnalyzeDone(i, TRUE, TRUE, 100)
  \/ \E i \in DOMAIN events, ok \in BOOLEAN : SwapDone(i, ok)
  \/ Len(events) < MaxDetected
       /\ \E s \in BOOLEAN : NewSolanaToken("So1a", s)
  \/ StopAllMonitors
  \/ StopListeners

DetectSpec == DetectInit /\ [][DetectNext]_vars

\* Two tasks side by side - two discoveries, their snipes and the loops of
\* their positions up to the first tick of each - with every adapter call
\* of either free to fail.  One configuration: trading and sniping enabled.
MaxTasks == 2

TaskNext ==
  \/ ~initialized /\ Initialize(TRUE)
  \/ Len(events) < MaxTasks /\ PairCreated(<<WETH_ADDRESS, "0xAbC">>)
  \/ Len(events) < MaxTasks /\ NewSolanaToken("So1a", TRUE)
  \/ \E i \in DOMAIN events, ok \in BOOLEAN : DeliverPair(i, ok, "50000.0")
  \/ \E i \in DOMAIN events, ok \in BOOLEAN : AnalyzeDone(i, ok, TRUE, 100)
  \/ \E i \in DOMAIN events, ok \in BOOLEAN : SwapDone(i, ok)
  \/ \E i \in DOMAIN events, ok \in BOOLEAN : PositionSetUp(i, ok, 100)
  \/ \E i \in DOMAIN events, ok \in BOOLEAN :
       events[i].polls = 0 /\ PollPrice(i, ok, 105, "1000.0")
  \/ \E i \in DOMAIN events, ok \in BOOLEAN : SellBalance(i, ok, "1000.0")
  \/ \E i \in DOMAIN events, ok \in BOOLEAN : SellSwapDone(i, ok)
  \/ \E i \in DOMAIN events, c \in PriceChanges :
       events[i].polls = 0 /\ SolanaPoll(i, c)

TaskSpec == DetectInit /\ [][TaskNext]_vars

\* The positions of the Solana monitor: the monitor started once or twice,
\* the snipes of its ticks, the ticks of the positions' loops, close
\* requests and stopAllMonitors, in every order.  A tick's simulated price
\* change is a fall past the stop-loss or no movement.
MaxPositions == 2

PositionNext ==
  \/ /\ events = << >>
     /\ listening["solana"] < MaxSubscriptions
     /\ Initialize(TRUE)
  \/ \E t \in SolTokens :
       Len(events) < MaxPositions /\ NewSolanaToken(t, TRUE)
  \/ \E i \in DOMAIN events, c \in {0 - 1000, 0} : SolanaPoll(i, c)
  \/ \E i \in DOMAIN events : CloseSolanaPosition(i)
  \/ StopAllMonitors

PositionSpec == DetectInit /\ [][PositionNext]_vars

\* The Bitcoin side: the detector started (once or twice, or failing),
\* the ticks of the Bitcoin monitor, calls of executeBitcoinArbitrage
\* before and after the start, and stopAllMonitors.
ArbitrageNext ==
  \/ /\ \A c \in MonitoredChains : listening[c] < MaxSubscriptions
     /\ \E ok \in BOOLEAN : Initialize(ok)
  \/ \E k \in ArbitragePrices, b \in ArbitragePrices :
       ExecuteBitcoinArbitrage(k, b)
  \/ BitcoinPoll
  \/ StopAllMonitors

ArbitrageSpec == DetectInit /\ [][ArbitrageNext]_vars

\* The risk validator on its own: calls of validateTransaction for all
\* three chains in any order, before and after the module is initialized,
\* with the midnight reset falling anywhere between them.
RiskNext ==
  \/ SecurityInitialize
  \/ \E in \in RiskInputs : ValidateTransaction(in[1], in[2])
  \/ ResetDailyTransactions

RiskSpec == DetectInit /\ [][RiskNext]_vars

\* ================================================================ claims
\* C1 - every discovered event, on any chain, whose candidate asset is in
\* the blacklist is classified not tradeable and gets no entry swap.
C1_BlacklistedNeverTraded ==
  \A i \in DOMAIN events :
    events[i].blacklisted =>
      /\ events[i].verdict # "safe"
      /\ events[i].swapCalls = 0

\* the Solana monitor approves and snipes a blacklisted mint
C1_Witness ==
  \E i \in DOMAIN events :
    /\ events[i].chain = "solana"
    /\ events[i].asset = "So1a"
    /\ "so1a" \in tokenBlacklist
    /\ events[i].blacklisted
    /\ events[i].verdict = "safe"
    /\ events[i].swapCalls = 1

\* C2 - with a non-empty whitelist every discovered asset absent from it is
\* classified not tradeable and gets no entry swap; an empty whitelist
\* excludes nothing.
C2_WhitelistExclusive ==
  \A i \in DOMAIN events :
    /\ events[i].offWhitelist =>
         /\ events[i].verdict # "safe"
         /\ events[i].swapCalls = 0
    /\ events[i].whitelistEmpty => events[i].outcome # "notWhitelisted"

\* the Solana monitor approves and snipes a mint the whitelist lacks
C2_Witness ==
  \E i \in DOMAIN events :
    /\ events[i].chain = "solana"
    /\ tokenWhitelist = {"0xabc"}
    /\ events[i].offWhitelist
    /\ events[i].verdict = "safe"
    /\ events[i].swapCalls = 1

\* C3 - an asset whose quote is exactly zero, or whose quote lookup fails,
\* is evaluated not tradeable and no entry swap follows for its event.
C3_ZeroQuoteBlocks ==
  \A i \in DOMAIN events :
    ( /\ events[i].chain = "ethereum"
      /\ events[i].verdict # "-"
      /\ (events[i].lookupFailed \/ parseFloat(events[i].quote) = 0) )
    => /\ events[i].verdict = "unsafe"
       /\ events[i].swapCalls = 0

\* a zero quote arrives as "0.0": the token passes and is bought
C3_Witness ==
  \E i \in DOMAIN events :
    /\ events[i].chain = "ethereum"
    /\ events[i].quote = "0.0"
    /\ ~events[i].lookupFailed
    /\ events[i].verdict = "safe"
    /\ events[i].swapCalls = 1

\* C4 - the safety evaluation always returns a verdict and never throws to
\* its caller: an error of the metadata or price lookup gives the
\* not-tradeable verdict.
C4_AnalysisFailsClosed ==
  \A i \in DOMAIN events :
    /\ events[i].verdict \in {"-", "safe", "unsafe"}
    /\ (events[i].evals > 0 /\ events[i].pc # "analyze") =>
         events[i].verdict \in {"safe", "unsafe"}
    /\ events[i].lookupFailed =>
         /\ events[i].verdict = "unsafe"
         /\ events[i].swapCalls = 0

C4_Witness ==
  \E i \in DOMAIN events :
    /\ events[i].chain = "ethereum"
    /\ events[i].evals = 1
    /\ events[i].lookupFailed
    /\ events[i].quote = "-"
    /\ events[i].verdict = "unsafe"
    /\ events[i].pc = "done"

C6_DisabledSnipeIsSimulatedPosition ==
  \A i \in DOMAIN events :
    LET e == events[i]
        disabled == IF e.chain = "ethereum" THEN ~config.ethTradingEnabled
                    ELSE ~config.solTradingEnabled
        sniped == e.outcome \in {"simulated", "success", "failure"}
    IN
    (sniped /\ disabled) =>
      /\ e.swapCalls = 0
      /\ e.simulated
      /\ e.loop # "none"

\* a simulated Ethereum snipe leaves no position behind
C6_Witness ==
  \E i \in DOMAIN events :
    /\ events[i].chain = "ethereum"
    /\ ~config.ethTradingEnabled
    /\ events[i].outcome = "simulated"
    /\ events[i].simulated
    /\ events[i].swapCalls = 0
    /\ events[i].loop = "none"

\* C7 - every snipe submits its entry to the risk validator before it
\* contacts the chain: no chain has more entry swaps than entries the
\* validator approved for it.
C7_RiskValidatedBeforeSwap ==
  \A c \in Chains :
    Cardinality({ i \in DOMAIN events :
                    events[i].chain = c /\ events[i].swapCalls > 0 })
      <= dailyTransactions[c].count

\* an entry swap is out and the validator has seen nothing
C7_Witness ==
  \E i \in DOMAIN events :
    /\ events[i].swapCalls = 1
    /\ dailyTransactions[events[i].chain].count = 0

C9_ThresholdsOrdered ==
  \A i \in DOMAIN events :
    ( /\ events[i].chain = "ethereum"
      /\ events[i].loop \in {"running", "cleared"}
      /\ config.takeProfitPercentage > 0
      /\ config.stopLossPercentage > 0 )
    => /\ events[i].takeProfitPrice > events[i].entryPrice
       /\ events[i].entryPrice > events[i].stopLossPrice

\* an entry price of zero collapses the three prices into one
C9_Witness ==
  \E i \in DOMAIN events :
    /\ events[i].chain = "ethereum"
    /\ events[i].loop = "running"
    /\ config.takeProfitPercentage > 0
    /\ config.stopLossPercentage > 0
    /\ events[i].entryPrice = 0
    /\ events[i].takeProfitPrice = 0
    /\ events[i].stopLossPrice = 0

C11_ZeroBalanceCloses ==
  \A i \in DOMAIN events :
    events[i].idleOnEmpty =>
      /\ events[i].loop = "cleared"
      /\ events[i].exitSwaps = 0

\* an Ethereum loop keeps running over an empty wallet
C11_Witness ==
  \E i \in DOMAIN events :
    /\ events[i].chain = "ethereum"
    /\ events[i].entryPrice = 100 * 1000
    /\ events[i].lastPrice = 105 * 1000
    /\ events[i].idleOnEmpty
    /\ events[i].hits = 0
    /\ events[i].polls = 2
    /\ events[i].loop = "running"

\* C12 - a failed price or balance lookup during one poll neither closes
\* the position, nor submits an exit swap, nor cancels the loop.
C12_FailedLookupIsSkipped ==
  \A i \in DOMAIN events :
    /\ events[i].pollFailed => events[i].lastHit = "-"
    /\ events[i].balanceFailed => events[i].loop = "running"

\* a tick whose price lookup failed reads 0, takes the stop-loss branch and
\* the position is sold
C12_Witness ==
  \E i \in DOMAIN events :
    /\ events[i].chain = "ethereum"
    /\ events[i].entryPrice = 100 * 1000
    /\ events[i].polls = 1
    /\ events[i].pollFailed
    /\ events[i].lastPrice = 0
    /\ events[i].lastHit = "stop-loss"
    /\ events[i].exitSwaps = 1
    /\ events[i].sold = 1
    /\ events[i].loop = "cleared"

\* C13 - after stopAllMonitors has returned, no monitoring loop closes a
\* position opened before the call or submits an exit swap for it, on
\* every chain and under every interleaving with the ticks.
C13_NoExitAfterStop ==
  \A i \in DOMAIN events :
    events[i].swapsAtStop >= 0 =>
      events[i].exitSwaps = events[i].swapsAtStop

\* an Ethereum loop that was running at the stop ticks on, meets the
\* take-profit threshold and sells
C13_Witness ==
  \E i \in DOMAIN events :
    /\ stopped
    /\ events[i].chain = "ethereum"
    /\ events[i].entryPrice = 100 * 1000
    /\ events[i].swapsAtStop = 0
    /\ events[i].polls = 1
    /\ events[i].lastPrice = 111 * 1000
    /\ events[i].trigger = "take-profit"
    /\ events[i].exitSwaps = 1
    /\ events[i].sold = 1

\* C14 - stopAllMonitors leaves every registered position's status, close
\* reason, close timestamp and close result as they were (active positions
\* stay active) and submits no exit swap.
C14_StopLeavesPositions ==
  [][(~stopped /\ stopped') =>
       /\ activeStrategies' = activeStrategies
       /\ \A i \in DOMAIN events :
            /\ events'[i].exitSwaps = events[i].exitSwaps
            /\ events'[i].inBalance = events[i].inBalance
            /\ events'[i].inSwap = events[i].inSwap
            /\ events'[i].sold = events[i].sold
    ]_vars

\* a Solana position whose loop the stop cancelled is still active
C14_Witness ==
  \E i \in DOMAIN events :
    /\ stopped
    /\ events[i].chain = "solana"
    /\ events[i].swapsAtStop = 0
    /\ events[i].exitSwaps = 0
    /\ events[i].loop = "cleared"
    /\ events[i].positionId \in DOMAIN activeStrategies
    /\ activeStrategies[events[i].positionId].status = "active"
    /\ activeStrategies[events[i].positionId].closeReason = "-"

\* C15 - processing of one discovered event never blocks another: while the
\* safety evaluation or the snipe of one event is pending, however long,
\* every other event's next step can be taken (its metadata delivered and
\* the evaluation started, its evaluation finished and the snipe started,
\* its swap confirmed), and a token discovered on the other chain is
\* evaluated and sniped.
C15_PendingNeverBlocks ==
  \A i \in DOMAIN events :
    events[i].pc \in {"analyze", "swap"} =>
      /\ \A j \in DOMAIN events \ {i} :
           /\ events[j].pc = "fetch" =>
                ENABLED DeliverPair(j, TRUE, "50000.0")
           /\ events[j].pc = "analyze" =>
                ENABLED AnalyzeDone(j, TRUE, TRUE, 100)
           /\ events[j].pc = "swap" => ENABLED SwapDone(j, TRUE)
      /\ listening["solana"] > 0 => ENABLED NewSolanaToken("So1a", TRUE)

\* an Ethereum event still awaits its safety evaluation while a later
\* event of the same chain and a later token of the other chain were both
\* evaluated and sniped
C15_Witness ==
  \E i, j, k \in DOMAIN events :
    /\ events[i].chain = "ethereum"
    /\ events[i].pc = "analyze"
    /\ events[j].chain = "ethereum"
    /\ events[j].emission > events[i].emission
    /\ events[j].evals = 1
    /\ events[j].swapCalls = 1
    /\ events[j].outcome = "success"
    /\ events[k].chain = "solana"
    /\ events[k].emission > events[i].emission
    /\ events[k].evals = 1
    /\ events[k].swapCalls = 1
    /\ events[k].outcome = "success"

\* C16 - starting detection is idempotent: however often initialize ran,
\* each chain has at most one live subscription or poller, and once
\* stopAllMonitors returned (and initialize did not run since) no chain has
\* a subscription or a poller left.
C16_StartIsIdempotent ==
  \A c \in MonitoredChains :
    /\ listening[c] <= 1
    /\ stopped => listening[c] = 0

\* initialize ran twice, then stopAllMonitors stopped every monitor it
\* holds
C16_Witness ==
  /\ initialized
  /\ stopped
  /\ \A c \in MonitoredChains : monitors[c] = "stopped"
  /\ listening["ethereum"] = 0
  /\ listening["solana"] = 1
  /\ listening["bitcoin"] = 1

\* C17 - stopAllMonitors and stopListeners can be called in every state,
\* before any start included, without throwing, and a call repeated at once
\* changes nothing the first did not: the subscriptions, the monitors, the
\* registry and the loops after two calls are those after one.
C17_StopIsIdempotent ==
  LET l1 == listeningAfterStop(listening, monitors)
      m1 == monitorsAfterStop(monitors)
      a1 == [id \in DOMAIN activeStrategies |->
               stopStrategy(activeStrategies[id])]
      e1 == stopLoops(events, activeStrategies)
  IN
  /\ \A c \in MonitoredChains : stopOutcome(monitors[c]) # "threw"
  /\ listeningAfterStop(l1, m1) = l1
  /\ monitorsAfterStop(m1) = m1
  /\ [id \in DOMAIN a1 |-> stopStrategy(a1[id])] = a1
  /\ stopLoops(e1, a1) = e1
  /\ [l1 EXCEPT !["ethereum"] = 0] = l1

\* stopAllMonitors returned although no detector was ever started
C17_Witness ==
  /\ stopped
  /\ ~initialized
  /\ \A c \in MonitoredChains : monitors[c] = "none" /\ listening[c] = 0

\* C18 - once the detectors are stopped (stopAllMonitors returned,
\* initialize did not run since, and no subscription or poller of a second
\* start is left over), no step hands an event to the safety evaluation or
\* to a snipe: no event's count of evaluations or of entry swaps grows, and
\* no new event arrives evaluated or sniped.
C18_NothingHandledAfterStop ==
  [][(stopped /\ stopped' /\ \A c \in Chains : listening[c] = 0) =>
       \A i \in DOMAIN events' :
         /\ events'[i].evals =
              IF i \in DOMAIN events THEN events[i].evals ELSE 0
         /\ events'[i].swapCalls =
              IF i \in DOMAIN events THEN events[i].swapCalls ELSE 0 ]_vars

\* the stop returned while an Ethereum handler awaited the token metadata
C18_Witness ==
  /\ stopped
  /\ listening["ethereum"] = 0
  /\ \E i \in DOMAIN events :
       /\ events[i].chain = "ethereum"
       /\ events[i].pc = "fetch"
       /\ events[i].evals = 0

\* C19 - within one chain the detector's handlers start in emission order:
\* when the handler of a later emission has started, the handler of every
\* earlier emission of the chain that was not dropped has started too.
C19_HandlersStartInEmissionOrder ==
  \A i, j \in DOMAIN events :
    ( /\ events[i].chain = events[j].chain
      /\ events[i].emission < events[j].emission
      /\ events[j].pc # "fetch"
      /\ events[j].outcome # "dropped" )
    => events[i].pc # "fetch"

\* two emissions of one chain, the handler of neither started yet
C19_Witness ==
  \E i, j \in DOMAIN events :
    /\ events[i].chain = "ethereum"
    /\ events[j].chain = "ethereum"
    /\ events[i].emission < events[j].emission
    /\ events[i].pc = "fetch"
    /\ events[j].pc = "fetch"

\* C20 - a pair event reaches the safety evaluation only if the pair holds
\* the reference asset and its liquidity is at least the configured
\* minimum, and the asset routed on is then the member of the pair that is
\* not the reference asset; every other handled event ends with no
\* evaluation and no entry swap.
C20_OnlyLiquidReferencePairsEvaluated ==
  \A i \in DOMAIN events :
    (events[i].chain = "ethereum" /\ events[i].liquidityUSD # "-") =>
      LET e == events[i]
          eligible ==
            /\ hasEth(e.token0, e.token1)
            /\ Ge(parseFloat(e.liquidityUSD), minLiquidityUSD)
      IN
      /\ e.evals > 0 =>
           /\ eligible
           /\ e.asset \in {e.token0, e.token1}
           /\ ~isWeth(e.asset)
      /\ ~eligible => e.evals = 0 /\ e.swapCalls = 0

\* a pair with the reference asset whose liquidity lookup returned no USD
\* figure was handed to the safety evaluation
C20_Witness ==
  \E i \in DOMAIN events :
    /\ events[i].chain = "ethereum"
    /\ hasEth(events[i].token0, events[i].token1)
    /\ events[i].liquidityUSD = "undefined"
    /\ events[i].evals = 1
    /\ ~isWeth(events[i].asset)

\* C21 - an adapter that cannot be initialized fails the start of its own
\* chain's detector only: when initialize has run with the Ethereum module
\* unavailable (the other modules are up, nothing was stopped since), the
\* Bitcoin and the Solana detector are running.
C21_OtherChainsStillStart ==
  \A c \in MonitoredChains \ {"ethereum"} :
    (~adapters["ethereum"] /\ adapters[c] /\ ~stopped) => listening[c] > 0

\* initialize returned false for want of the Ethereum module, the Bitcoin
\* and Solana modules are initialized and no monitor exists
C21_Witness ==
  /\ ~initialized
  /\ ~adapters["ethereum"]
  /\ adapters["bitcoin"]
  /\ adapters["solana"]
  /\ ~stopped
  /\ \A c \in MonitoredChains : monitors[c] = "none" /\ listening[c] = 0

\* C22 - an error met while one event or one position poll is processed
\* stays inside that task: the step in which a task's adapter call fails
\* (the metadata, the analysis lookup, the entry swap, a tick's price, a
\* sell's balance or its exit swap) leaves every chain's detector
\* subscribed, and changes no other event's pipeline, no other position's
\* loop and no registry entry.
C22_ErrorsStayInTask ==
  [][\A i \in DOMAIN events :
       ( \/ events[i].outcome = "-"
              /\ events'[i].outcome \in {"dropped", "failure"}
         \/ ~events[i].lookupFailed /\ events'[i].lookupFailed
         \/ events'[i].polls > events[i].polls /\ events'[i].pollFailed
         \/ events'[i].inBalance < events[i].inBalance
              /\ events'[i].balanceFailed
         \/ events'[i].inSwap < events[i].inSwap
              /\ events'[i].sold = events[i].sold )
       => /\ listening' = listening
          /\ monitors' = monitors
          /\ activeStrategies' = activeStrategies
          /\ \A j \in DOMAIN events \ {i} : events'[j] = events[j] ]_vars

\* the entry swap of one event threw; the detectors are still subscribed,
\* a later event of the same chain went through its evaluation and the
\* loop of its position has ticked
C22_Witness ==
  \E i, j \in DOMAIN events :
    /\ events[i].chain = "ethereum"
    /\ events[i].outcome = "failure"
    /\ events[j].chain = "ethereum"
    /\ events[j].emission > events[i].emission
    /\ events[j].evals = 1
    /\ events[j].loop = "running"
    /\ events[j].polls = 1
    /\ \A c \in MonitoredChains : listening[c] > 0

\* C23 - at no time are two positions active on the same (chain, asset):
\* of two events of one chain that routed the same asset, at most one has
\* an open position (Ethereum: a snipe that succeeded and whose loop is
\* not cleared; Solana: a registry entry with status active).
C23_OnePositionPerAsset ==
  \A i, j \in DOMAIN events :
    ( /\ i # j
      /\ events[i].chain = events[j].chain
      /\ events[i].asset = events[j].asset
      /\ events[i].outcome = "success"
      /\ events[j].outcome = "success" )
    => ~ \A k \in {i, j} :
           IF events[k].chain = "solana"
           THEN /\ events[k].positionId \in DOMAIN activeStrategies
                /\ activeStrategies[events[k].positionId].status = "active"
           ELSE events[k].loop \in {"pricing", "running"}

\* two registry entries, both active, hold the same Solana token
C23_Witness ==
  \E a, b \in DOMAIN activeStrategies :
    /\ a # b
    /\ activeStrategies[a].tokenAddress = activeStrategies[b].tokenAddress
    /\ activeStrategies[a].status = "active"
    /\ activeStrategies[b].status = "active"

\* C24 - on every chain, in every order of the validateTransaction calls
\* made between two daily resets, the amounts approved sum to no more than
\* the chain's dailyLimit, and an approved amount is never above the
\* chain's maxTransactionAmount.
C24_ApprovalsWithinLimits ==
  /\ \A c \in MonitoredChains :
       Le(validation.approved[c],
          parseFloat(transactionLimits[c].dailyLimit))
  /\ (validation.kind = "validate" /\ validation.valid) =>
       Le(parseFloat(validation.amount),
          parseFloat(transactionLimits[validation.chain].maxTransactionAmount))

\* a chain's approvals stand exactly at its daily limit and a further call,
\* for an amount that would have fitted on its own, was refused
C24_Witness ==
  /\ validation.kind = "validate"
  /\ ~validation.valid
  /\ validation.reason = "Transaction would exceed daily limit"
  /\ validation.chain = "bitcoin"
  /\ validation.amount = "0.005"
  /\ validation.approved["bitcoin"] = parseFloat("0.05")

\* C25 - a validateTransaction call that returns valid = false leaves the
\* total, the count and the transactions list of every chain as they were;
\* the counters change only in an approval (or in the daily reset).
C25_RefusalChangesNothing ==
  [][ /\ (validation'.kind = "validate" /\ ~validation'.valid)
         => dailyTransactions' = dailyTransactions
      /\ dailyTransactions' # dailyTransactions
         => \/ validation'.kind = "validate" /\ validation'.valid
            \/ validation'.kind = "reset" ]_vars

\* a call for a chain the module has no limits for was refused while the
\* counters of the known chains hold earlier approvals
C25_Witness ==
  /\ validation.kind = "validate"
  /\ ~validation.valid
  /\ validation.reason = "Error: Unknown chain"
  /\ \A c \in MonitoredChains : dailyTransactions[c].count > 0

\* C26 - on the initialized module and a known chain, validateTransaction
\* approves exactly when the amount is at most maxTransactionAmount and the
\* daily total plus the amount is at most dailyLimit, and an approval
\* raises the chain's total by the amount and its count by one.
C26_ApprovedExactlyWithinLimits ==
  [][ ( /\ validation'.kind = "validate"
        /\ securityInitialized
        /\ validation'.chain \in DOMAIN transactionLimits )
      => LET c == validation'.chain
             a == parseFloat(validation'.amount)
             limits == transactionLimits[c]
         IN
         /\ validation'.valid <=>
              /\ Le(a, parseFloat(limits.maxTransactionAmount))
              /\ Le(dailyTransactions[c].total + a,
                    parseFloat(limits.dailyLimit))
         /\ validation'.valid =>
              /\ dailyTransactions'[c].total = dailyTransactions[c].total + a
              /\ dailyTransactions'[c].count = dailyTransactions[c].count + 1
      ]_vars

\* 0.05 ETH, 0.005 BTC and 0.5 SOL were each approved once
C26_Witness ==
  /\ validation.kind = "validate"
  /\ validation.valid
  /\ dailyTransactions["ethereum"] =
       [total |-> parseFloat("0.05"), count |-> 1, transactions |-> 1]
  /\ dailyTransactions["bitcoin"] =
       [total |-> parseFloat("0.005"), count |-> 1, transactions |-> 1]
  /\ dailyTransactions["solana"] =
       [total |-> parseFloat("0.5"), count |-> 1, transactions |-> 1]

C29_RedFlagOnlyWarns ==
  \A i \in DOMAIN events :
    ( /\ events[i].verdict # "-"
      /\ events[i].flagged # {}
      /\ ~events[i].blacklisted
      /\ events[i].whitelistEmpty
      /\ events[i].chain = "ethereum"
         => /\ ~events[i].lookupFailed
            /\ parseFloat(events[i].quote) # 0 )
    => /\ events[i].verdict = "safe"
       /\ warningsOf(events[i].verdict) # {}

\* an Ethereum token named SafeMoon with a non-zero quote is approved and
\* bought: two terms were logged and the verdict is the bare true
C29_Witness ==
  \E i \in DOMAIN events :
    /\ events[i].chain = "ethereum"
    /\ events[i].flagged = {"safe", "moon"}
    /\ ~events[i].blacklisted
    /\ events[i].whitelistEmpty
    /\ parseFloat(events[i].quote) > 0
    /\ events[i].verdict = "safe"
    /\ events[i].swapCalls = 1

\* C30 - the thresholds of a position are entryPrice * (1 + takeProfitPct /
\* 100) and entryPrice * (1 - stopLossPct / 100) exactly: an entry price of
\* 100 with 10 % and 5 % gives 110 and 95.
C30_ThresholdsExact ==
  \A i \in DOMAIN events :
    ( /\ events[i].chain = "ethereum"
      /\ events[i].loop \in {"running", "cleared"} )
    => /\ events[i].takeProfitPrice * 10000 =
            events[i].entryPrice * (10000 + config.takeProfitPercentage)
       /\ events[i].stopLossPrice * 10000 =
            events[i].entryPrice * (10000 - config.stopLossPercentage)

\* entry 100 with 10 % and 5 %: the stop-loss is 95 and the take-profit is
\* the double next above 110
C30_Witness ==
  \E i \in DOMAIN events :
    /\ events[i].chain = "ethereum"
    /\ events[i].loop = "running"
    /\ config.takeProfitPercentage = 1000
    /\ config.stopLossPercentage = 500
    /\ events[i].entryPrice = parseFloat("100.0")
    /\ events[i].stopLossPrice = 95 * 1000
    /\ events[i].takeProfitPrice = 110 * 1000 + 1

\* C31 - on the initialized Solana adapter with trading disabled,
\* swapTokens does not throw and returns a result marked simulated: a
\* Solana snipe made while trading is disabled ends as a simulated entry.
C31_DisabledSolanaSwapSimulates ==
  \A i \in DOMAIN events :
    ( /\ events[i].chain = "solana"
      /\ adapters["solana"]
      /\ ~config.solTradingEnabled
      /\ events[i].swapCalls = 1 )
    => /\ events[i].outcome = "success"
       /\ events[i].simulated

\* the adapter is initialized and holds no wallet: the snipe's swap threw
\* before the trading switch was read and the snipe failed
C31_Witness ==
  \E i \in DOMAIN events :
    /\ events[i].chain = "solana"
    /\ adapters["solana"]
    /\ ~wallet
    /\ ~config.solTradingEnabled
    /\ events[i].swapCalls = 1
    /\ events[i].outcome = "failure"
    /\ ~events[i].simulated
    /\ events[i].positionId = 0

\* C32 (as stated) - executeBitcoinArbitrage trades exactly when the
\* spread (higher - lower) / lower * 100 is strictly greater than
\* minArbitrageProfit, buying on the strictly cheaper exchange (binance
\* when the prices are equal) and selling on the other; otherwise it
\* returns executed = false with reason 'Profit too low' and no trade.
C32_ArbitrageTradesOnSpread ==
  arbitrage.kind = "call" =>
    LET k == parseFloat(arbitrage.krakenPrice)
        b == parseFloat(arbitrage.binancePrice)
        low == IF k < b THEN k ELSE b
        high == IF k < b THEN b ELSE k
        over == (high - low) * 100 > minArbitrageProfit * (low \div 1000)
        cheaper == IF k < b THEN "kraken" ELSE "binance"
        other == IF k < b THEN "binance" ELSE "kraken"
    IN
    /\ arbitrage.executed <=> over
    /\ arbitrage.executed =>
         arbitrage.orders = << <<cheaper, "buy">>, <<other, "sell">> >>
    /\ ~arbitrage.executed =>
         /\ arbitrage.reason = "Profit too low"
         /\ arbitrage.orders = << >>

\* C32 (amended) - on an initialized Bitcoin module the call trades exactly
\* when the spread is strictly greater than minArbitrageProfit, buying on
\* the cheaper exchange (binance on equal prices) and selling on the
\* other, and otherwise returns 'Profit too low' without a trade; on a
\* module that is not initialized a spread above the minimum returns
\* executed = false with reason 'Error' and no trade.
C32_ArbitrageOnInitializedModule ==
  [][ (arbitrage' # arbitrage /\ arbitrage'.kind = "call") =>
      LET k == parseFloat(arbitrage'.krakenPrice)
          b == parseFloat(arbitrage'.binancePrice)
          low == IF k < b THEN k ELSE b
          high == IF k < b THEN b ELSE k
          over == (high - low) * 100 > minArbitrageProfit * (low \div 1000)
          cheaper == IF k < b THEN "kraken" ELSE "binance"
          other == IF k < b THEN "binance" ELSE "kraken"
      IN
      /\ arbitrage'.executed <=> (over /\ adapters["bitcoin"])
      /\ arbitrage'.executed =>
           arbitrage'.orders = << <<cheaper, "buy">>, <<other, "sell">> >>
      /\ ~arbitrage'.executed =>
           /\ arbitrage'.orders = << >>
           /\ arbitrage'.reason =
                IF over THEN "Error" ELSE "Profit too low" ]_vars

\* Kraken at 64321 and Binance at 64000 on the initialized module: the
\* spread is just over 0.5 %, bought on Binance and sold on Kraken
C32_Witness ==
  /\ adapters["bitcoin"]
  /\ arbitrage.kind = "call"
  /\ arbitrage.krakenPrice = "64321"
  /\ arbitrage.binancePrice = "64000"
  /\ arbitrage.executed
  /\ arbitrage.orders = << <<"binance", "buy">>, <<"kraken", "sell">> >>

\* C33 - a poll tests take-profit before stop-loss: a tick whose reading
\* meets both thresholds takes the take-profit branch only and starts one
\* sell; on Solana, where the sell runs inside the tick, the entry is
\* closed with reason take-profit after exactly one exit swap.
C33_TakeProfitWinsTies ==
  [][\A i \in DOMAIN events :
       LET e == events[i]
           f == events'[i]
           id == e.positionId
       IN
       /\ ( /\ e.chain = "ethereum"
            /\ f.polls = e.polls + 1
            /\ Ge(f.lastPrice, e.takeProfitPrice)
            /\ Le(f.lastPrice, e.stopLossPrice) )
          => /\ f.lastHit = "take-profit"
             /\ f.trigger = "take-profit"
             /\ f.hits = e.hits + 1
             /\ f.inBalance = e.inBalance + 1
             /\ f.exitSwaps = e.exitSwaps
       /\ ( /\ e.chain = "ethereum"
            /\ f.inBalance = e.inBalance - 1 )
          => f.exitSwaps <= e.exitSwaps + 1
       /\ ( /\ e.chain = "solana"
            /\ f.polls = e.polls + 1
            /\ id \in DOMAIN activeStrategies
            /\ activeStrategies[id].status = "active"
            /\ f.lastPrice >= activeStrategies[id].takeProfitPercentage
            /\ f.lastPrice <= 0 - activeStrategies[id].stopLossPercentage )
          => /\ f.lastHit = "take-profit"
             /\ f.trigger = "take-profit"
             /\ f.exitSwaps = e.exitSwaps + 1
             /\ activeStrategies'[id].status = "closed"
             /\ activeStrategies'[id].closeReason = "take-profit"
    ]_vars

\* a Solana position with both percentages zero saw no price movement:
\* both conditions held and it was closed on take-profit by one swap
C33_Witness ==
  \E i \in DOMAIN events :
    /\ events[i].chain = "solana"
    /\ events[i].positionId \in DOMAIN activeStrategies
    /\ activeStrategies[events[i].positionId].takeProfitPercentage = 0
    /\ activeStrategies[events[i].positionId].stopLossPercentage = 0
    /\ events[i].polls = 1
    /\ events[i].lastPrice = 0
    /\ events[i].trigger = "take-profit"
    /\ events[i].exitSwaps = 1
    /\ activeStrategies[events[i].positionId].closeReason = "take-profit"

\* C34 - a snipe is one-shot: for each discovered event at most one entry
\* swap is submitted, and a swap that fails ends the snipe with a failure
\* result, no position and no further attempt.
C34_SnipeIsOneShot ==
  /\ \A i \in DOMAIN events :
       /\ events[i].swapCalls <= 1
       /\ events[i].outcome = "failure" =>
            /\ events[i].swapCalls = 1
            /\ events[i].loop = "none"
            /\ events[i].positionId = 0
  /\ \A i, j \in DOMAIN events :
       ( /\ i # j
         /\ events[i].chain = events[j].chain
         /\ events[i].emission = events[j].emission )
       => ~(events[i].swapCalls = 1 /\ events[j].swapCalls = 1)

\* one PairCreated emission reached two registered handlers: the entry
\* swap of the first failed, and the second submitted another for the
\* same event and holds a position
C34_Witness ==
  \E i, j \in DOMAIN events :
    /\ i < j
    /\ events[i].chain = "ethereum"
    /\ events[j].chain = "ethereum"
    /\ events[i].emission = events[j].emission
    /\ events[i].swapCalls = 1
    /\ events[i].outcome = "failure"
    /\ events[i].loop = "none"
    /\ events[j].swapCalls = 1
    /\ events[j].outcome = "success"

\* C35 - for every position at most one exit swap is ever submitted,
\* under every interleaving of the ticks of its loop with the sells they
\* start and with close requests.
C35_AtMostOneExitSwap ==
  \A i \in DOMAIN events : events[i].exitSwaps <= 1

\* two ticks of one Ethereum loop met the take-profit threshold, the
\* second while the first one's sell was still out: two exit swaps await
\* confirmation together
C35_Witness ==
  \E i \in DOMAIN events :
    /\ events[i].chain = "ethereum"
    /\ events[i].loop = "running"
    /\ events[i].polls = 2
    /\ events[i].hits = 2
    /\ events[i].trigger = "take-profit"
    /\ events[i].inSwap = 2
    /\ events[i].exitSwaps = 2

\* C36 - a loop cancels itself only when its position has really been
\* closed: a loop that is cleared after its one sell submitted an exit
\* swap has had that swap confirmed, and unless stopAllMonitors was called
\* every Solana position whose status is active still has a running loop.
C36_LoopEndsOnlyWhenClosed ==
  \A i \in DOMAIN events :
    /\ ( /\ events[i].chain = "ethereum"
         /\ events[i].loop = "cleared"
         /\ events[i].hits = 1
         /\ events[i].exitSwaps = 1 )
       => events[i].sold = 1
    /\ ( /\ events[i].chain = "solana"
         /\ events[i].positionId \in DOMAIN activeStrategies
         /\ activeStrategies[events[i].positionId].status = "active"
         /\ events[i].swapsAtStop < 0 )
       => events[i].loop = "running"

\* the one exit swap of an Ethereum position failed and its loop is
\* cleared, with stopAllMonitors never called: the tokens are still held
\* and nothing watches them
C36_Witness ==
  \E i \in DOMAIN events :
    /\ ~stopped
    /\ events[i].chain = "ethereum"
    /\ events[i].swapsAtStop < 0
    /\ events[i].hits = 1
    /\ events[i].exitSwaps = 1
    /\ events[i].inSwap = 0
    /\ events[i].sold = 0
    /\ events[i].loop = "cleared"

\* C37 - with the shipped settings takeProfitPercentage = 0.1 and
\* stopLossPercentage = 0.05 a position exits for profit only at a price
\* 10 % or more above entry and for loss only at a price 5 % or more
\* below entry.
C37_ShippedThresholdsAreTenAndFive ==
  \A i \in DOMAIN events :
    ( /\ config.takeProfitPercentage = 10
      /\ config.stopLossPercentage = 5
      /\ events[i].polls > 0 )
    => IF events[i].chain = "ethereum"
       THEN /\ events[i].lastHit = "take-profit"
               => events[i].lastPrice * 100 >= events[i].entryPrice * 110
            /\ events[i].lastHit = "stop-loss"
               => events[i].lastPrice * 100 <= events[i].entryPrice * 95
       ELSE /\ events[i].lastHit = "take-profit"
               => events[i].lastPrice >= 1000
            /\ events[i].lastHit = "stop-loss"
               => events[i].lastPrice <= 0 - 500

\* settings 0.1 and 0.05, entry price 100: the threshold is 100.1 and a
\* reading of 105, a rise of 5 %, takes the take-profit branch
C37_Witness ==
  \E i \in DOMAIN events :
    /\ config.takeProfitPercentage = 10
    /\ config.stopLossPercentage = 5
    /\ events[i].chain = "ethereum"
    /\ events[i].entryPrice = 100 * 1000
    /\ events[i].takeProfitPrice = 100100
    /\ events[i].lastPrice = 105 * 1000
    /\ events[i].lastHit = "take-profit"

\* C38 - the Ethereum simulation gate follows the configuration's
\* per-chain setting trading.ethereum.tradingEnabled: when it is true an
\* approved snipe submits a real swap (and a swap that succeeds opens a
\* monitored position), when it is false the snipe is simulated.
C38_GateFollowsChainSetting ==
  \A i \in DOMAIN events :
    ( /\ events[i].chain = "ethereum"
      /\ events[i].verdict = "safe"
      /\ events[i].pc = "done" )
    => IF config.tradingEthereumTradingEnabled
       THEN /\ events[i].swapCalls = 1
            /\ ~events[i].simulated
            /\ events[i].outcome = "success" => events[i].loop # "none"
       ELSE /\ events[i].swapCalls = 0
            /\ events[i].outcome = "simulated"

\* trading.ethereum.tradingEnabled is true and the configuration has no
\* true exchanges.ethereum.tradingEnabled: the approved snipe is simulated
C38_Witness ==
  \E i \in DOMAIN events :
    /\ config.tradingEthereumTradingEnabled
    /\ ~config.ethTradingEnabled
    /\ events[i].chain = "ethereum"
    /\ events[i].verdict = "safe"
    /\ events[i].outcome = "simulated"
    /\ events[i].swapCalls = 0
    /\ events[i].loop = "none"

\* C39 - once MultiChainLiquidityDetector.initialize has returned true a
\* detector is running for each of the three chains: the PairCreated
\* subscription is registered and both pollers are started (no code path
\* of this specification stops them again).
C39_InitializedMeansListening ==
  initialized => \A c \in MonitoredChains : listening[c] > 0

\* initialize returned true and stored an Ethereum monitor, the pollers
\* run, and no PairCreated handler is registered
C39_Witness ==
  /\ initialized
  /\ monitors["ethereum"] = "live"
  /\ listening["bitcoin"] > 0
  /\ listening["solana"] > 0
  /\ listening["ethereum"] = 0

====
